---- MODULE Spec2Model ----
(***************************************************************************)
(* The real-time chat part of the Thrift2 server (src/unnamed/part_006,    *)
(* the same handlers appear in part_004 and part_005): the Message model,  *)
(* the two io.on("connection") listeners and the socket events they        *)
(* register.  One action per socket event and per continuation of an       *)
(* async handler after its await.                                          *)
(*                                                                         *)
(* Identifiers are strings, written as sequences of one-character strings  *)
(* so that Array.prototype.sort and join can be computed on them.          *)
(*                                                                         *)
(* No handler catches what it throws: a handler whose await rejects, or    *)
(* that throws after it, ends there with an unhandled rejection.  The      *)
(* model records how each sendMessage handler ended and lets the process   *)
(* run on after an unhandled rejection.                                    *)
(*                                                                         *)
(* Spec is the chat server.  The other specifications take one part on     *)
(* its own: ResolveSpec and PairSpec the room id, HistorySpec the route    *)
(* GET /api/chat/:userId, TypingSpec the typing indicator, JoinSpec        *)
(* joinRoom, StaleSpec sockets with a broken transport.                    *)
(***************************************************************************)
EXTENDS Integers, Sequences, FiniteSets, TLC

VARIABLES
    owner,       \* socket -> the user at the other end of it while it is
                 \* connected (the server never learns who), NoUser otherwise
    joined,      \* socket -> the rooms socket.join() put it in
    inbox,       \* socket -> the events emitted to it since it connected, in order
    store,       \* the messages collection, in insertion order
    nextId,      \* _id the next new Message() gets
    tasks,       \* sendMessage handlers suspended at await message.save()
    marks,       \* markAsRead handlers suspended at await findByIdAndUpdate()
    settled,     \* sendMessage handlers that ran to their end (returned or threw)
    emails,      \* calls of sendEmailNotification, in order
    clock,       \* Date.now() when the last message was constructed
    nEvents,     \* how many events of each name the server has received
    ra, rb, rroom, \* inputs and result of the room id computation (ResolveSpec)
    history,     \* request -> the response GET /api/chat/:userId gave it (HistorySpec)
    rc, rd, rroom2, \* a second pair of identifiers and its room id (PairSpec)
    typed,       \* the "typing" events the server has handled, in order (TypingSpec)
    joinArgs,    \* socket -> the payloads of its "joinRoom" events (JoinSpec)
    stale        \* the sockets whose transport broke and is not closed yet (StaleSpec)

vars == <<owner, joined, inbox, store, nextId, tasks,
          marks, settled, emails, clock, nEvents, ra, rb, rroom, history,
          rc, rd, rroom2, typed, joinArgs, stale>>

\* the variables only PairSpec, TypingSpec, JoinSpec or StaleSpec change
auxVars == <<rc, rd, rroom2, typed, joinArgs, stale>>

chatVars == <<owner, joined, inbox, store, nextId, tasks,
              marks, settled, emails, clock, nEvents>>

----------------------------------------------------------------------------
(* Bounds of the model *)

MaxEvents == 2    \* sendMessage and markAsRead events over a run
MaxIdLen == 2     \* length of the identifiers ResolveSpec draws
MaxStore == 3     \* documents in the collection HistorySpec starts from
MaxPairLen == 2   \* length of the identifiers PairSpec draws
MaxTyping == 2    \* "typing" events over a run of TypingSpec

----------------------------------------------------------------------------
(* Strings *)

a == <<"a">>
b == <<"b">>
c == <<"c">>
Empty == <<>>

\* the users of a run, each with a well-formed ObjectId
Users == {a, b, c}

hi == <<"h">>

\* the { senderId, receiverId, text } payloads the clients of a run send with
\* "sendMessage": well-formed ones, one with an empty text, one with an empty
\* receiverId
SendArgs == {<<a, b, hi>>, <<b, a, hi>>, <<a, b, Empty>>, <<a, Empty, hi>>}

\* the { senderId, receiverId } payloads sent with "joinRoom" and "typing"
PairArgs == {<<a, b>>, <<b, a>>}

\* The client devices of a run.  A device that reconnects gets a new socket,
\* which the model gives the device's name again: nothing of the old socket
\* is kept.
Sockets == {1, 2, 3}

\* whose the devices are: a's, b's, and a second device of b or one of c
Connecting(s) == IF s = 1 THEN {a} ELSE IF s = 2 THEN {b} ELSE {b, c}

NoUser == <<"?">>

\* UTF-16 code unit of the characters the model uses
Code(ch) ==
    CASE ch = "-" -> 45
      [] ch = "a" -> 97
      [] ch = "b" -> 98
      [] ch = "c" -> 99
      [] ch = "h" -> 104


\* x < y as JavaScript compares strings: by code unit, a proper prefix first
RECURSIVE StrLess(_, _)
StrLess(x, y) ==
    IF y = <<>> THEN FALSE
    ELSE IF x = <<>> THEN TRUE
    ELSE IF Head(x) = Head(y) THEN StrLess(Tail(x), Tail(y))
    ELSE Code(Head(x)) < Code(Head(y))

\* SortPair without the sort
SortPairUnsorted(x, y) == <<x, y>>

\* [x, y].sort(): the default comparison is on the string forms, and stable
SortPair(x, y) == IF StrLess(y, x) THEN <<y, x>> ELSE <<x, y>>

\* JoinDash with the empty separator, [x, y].join("")
JoinNoDash(p) == p[1] \o p[2]

\* [x, y].join("-")
JoinDash(p) == p[1] \o <<"-">> \o p[2]

\* const roomId = [senderId, receiverId].sort().join("-")
RoomId(senderId, receiverId) == JoinDash(SortPair(senderId, receiverId))

----------------------------------------------------------------------------
(* The Message model *)

\* the paths of MessageSchema; strict mode (mongoose's default) drops any other
SchemaPaths == {"sender", "receiver", "text", "timestamp"}

\* new Message({ sender, receiver, text }): _id and the timestamp default are
\* set at construction
NewMessage(id, senderId, receiverId, text, now) ==
    [id |-> id, sender |-> senderId, receiver |-> receiverId, text |-> text,
     timestamp |-> now]

\* a string mongoose casts to an ObjectId
IsObjectId(x) == x \in Users

\* Validates that checks the sender only
ValidatesSenderOnly(m) == IsObjectId(m.sender)

\* the validation save() runs first: the three paths are required, sender and
\* receiver must cast to ObjectId, and required rejects the empty string
Validates(m) == IsObjectId(m.sender) /\ IsObjectId(m.receiver) /\ m.text # Empty

\* message.read as a client reads it off the document ("Seen" when truthy)
ReadFlag(m) == IF "read" \in DOMAIN m THEN m.read ELSE FALSE

\* the update after mongoose casts it against the schema
CastUpdate(update) ==
    [k \in (DOMAIN update \cap SchemaPaths) |-> update[k]]

\* document m with the cast update applied ($set)
ApplyUpdate(m, update) ==
    [k \in (DOMAIN m \cup DOMAIN CastUpdate(update)) |->
        IF k \in DOMAIN CastUpdate(update) THEN CastUpdate(update)[k] ELSE m[k]]

\* Message.findByIdAndUpdate(messageId, update): the collection afterwards.
\* An id that matches no document updates nothing and is no error.
FindByIdAndUpdate(coll, messageId, update) ==
    [i \in 1..Len(coll) |->
        IF coll[i].id = messageId THEN ApplyUpdate(coll[i], update) ELSE coll[i]]

StoreIds == {store[i].id : i \in 1..Len(store)}


\* a well-formed ObjectId that no document has
UnknownId == 0

\* a messageId that does not cast to ObjectId
MalformedId == 0 - 1

----------------------------------------------------------------------------
(* socket.io *)

\* the connected sockets
sockets == {s \in Sockets : owner[s] # NoUser}

MessageEvent(m) == [ev |-> "receiveMessage", message |-> m]
ReadEvent(messageId) == [ev |-> "messageRead", messageId |-> messageId]
TypingEvent(senderId) == [ev |-> "showTyping", senderId |-> senderId]

\* the participant identifier the server holds for a socket: neither
\* connection listener reads the handshake and no middleware runs ahead of
\* them, so none, for every socket
VerifiedId(s) == NoUser

\* the connected sockets that are in a room
InRoom(room) == {s \in sockets : room \in joined[s]}

\* the inboxes after the event went to the sockets of `to`
Deliver(to, e) ==
    [s \in DOMAIN inbox |-> IF s \in to THEN Append(inbox[s], e) ELSE inbox[s]]

\* io.to(room).emit(...): every connected socket in the room, the emitting
\* one included
EmitToRoom(room, e) == Deliver(InRoom(room), e)

\* io.emit(...): every connected socket
EmitToAll(e) == Deliver(sockets, e)

\* the connected sockets of a user
HandlesOf(u) == {s \in sockets : owner[s] = u}


----------------------------------------------------------------------------
(* The presence map and the notification *)

\* `onlineUsers` is read by the second sendMessage handler and is declared and
\* assigned nowhere in the program: evaluating it throws a ReferenceError.
\* `users` is what the map would hold.
onlineUsers == [declared |-> FALSE, users |-> {}]

\* const receiverSocket = onlineUsers[receiverId]: what the send path learns
\* of the receiver
PresenceRead(receiverId) ==
    IF ~onlineUsers.declared THEN "ReferenceError"
    ELSE IF receiverId \in onlineUsers.users THEN "online"
    ELSE "offline"

\* receiver.email of the User document
EmailOf(u) == <<"@">> \o u

\* sendEmailNotification(to, message): one transporter.sendMail call
SendEmailNotification(to, text, id) == Append(emails, [to |-> to, text |-> text, id |-> id])

\* how await sendEmailNotification(...) settles: transporter.sendMail resolves,
\* or rejects and the rejection passes through the two awaits uncaught
SendMailOutcomes == {"ok", "MailError"}

----------------------------------------------------------------------------
(* The state after the server started *)

NoEvents == [send |-> 0, mark |-> 0]

\* the (req.userId, req.params.userId) of the GET /api/chat/:userId requests of
\* a run; req.userId is the one `authenticate` took from a valid token
Requests == {<<a, b>>, <<b, a>>, <<a, c>>}

\* no request answered yet
NoHistory == [q \in Requests |-> [asked |-> FALSE, messages |-> <<>>]]

ChatInit ==
    /\ owner = [s \in Sockets |-> NoUser]
    /\ joined = [s \in Sockets |-> {}]
    /\ inbox = [s \in Sockets |-> <<>>]
    /\ store = <<>>
    /\ nextId = 1
    /\ tasks = {}
    /\ marks = {}
    /\ settled = {}
    /\ emails = <<>>
    /\ clock = 0
    /\ nEvents = NoEvents

\* nothing recorded of the events of a run
AuxInit ==
    /\ rc = Empty
    /\ rd = Empty
    /\ rroom2 = Empty
    /\ typed = <<>>
    /\ joinArgs = [s \in Sockets |-> {}]
    /\ stale = {}

Init ==
    /\ ChatInit
    /\ ra = Empty
    /\ rb = Empty
    /\ rroom = Empty
    /\ history = NoHistory
    /\ AuxInit

----------------------------------------------------------------------------
(* Connections *)

\* device s of user u connects: io.on("connection") runs both listeners,
\* which register the handlers below on the new socket
Connect(s, u) ==
    /\ s \notin sockets
    /\ owner' = [owner EXCEPT ![s] = u]
    /\ UNCHANGED <<joined, inbox, store, nextId, tasks, marks, settled, emails,
                   clock, nEvents>>

\* the socket closes: socket.io takes it out of its rooms; both "disconnect"
\* handlers only log
Disconnect(s) ==
    /\ s \in sockets
    /\ owner' = [owner EXCEPT ![s] = NoUser]
    /\ joined' = [joined EXCEPT ![s] = {}]
    /\ inbox' = [inbox EXCEPT ![s] = <<>>]
    /\ UNCHANGED <<store, nextId, tasks, marks, settled,
                   emails, clock, nEvents>>

\* socket.on("joinRoom")
JoinRoom(s, senderId, receiverId) ==
    /\ s \in sockets
    /\ joined' = [joined EXCEPT ![s] = @ \cup {RoomId(senderId, receiverId)}]
    /\ UNCHANGED <<owner, inbox, store, nextId, tasks, marks,
                   settled, emails, clock, nEvents>>

\* socket.on("typing"), registered by both listeners: two emits to the room
\* named receiverId
Typing(s, senderId, receiverId) ==
    /\ s \in sockets
    /\ inbox' = [x \in DOMAIN inbox |->
                    IF x \in InRoom(receiverId)
                    THEN inbox[x] \o <<TypingEvent(senderId), TypingEvent(senderId)>>
                    ELSE inbox[x]]
    /\ UNCHANGED <<owner, joined, store, nextId, tasks, marks,
                   settled, emails, clock, nEvents>>


----------------------------------------------------------------------------
(* sendMessage *)

\* A handler suspended at await message.save().  h is the listener that
\* registered it (1: the room handler, 2: the presence/email handler), send
\* the number of the event among the sendMessage events of the run.
SendTask(h, id, senderId, receiverId, text, now) ==
    [h |-> h,
     send |-> nEvents.send + 1,
     msg |-> NewMessage(id, senderId, receiverId, text, now)]

\* the record of a handler that ran to its end
Settle(t, outcome) ==
    [h |-> t.h, send |-> t.send, msg |-> t.msg, outcome |-> outcome]

\* a "sendMessage" event arrives on socket s at time now: the handlers of both
\* listeners run up to their await message.save(), the first listener's first.
\* Time starts at 0 and passes by at most one unit between two events.
SendMessage(s, senderId, receiverId, text, now) ==
    /\ s \in sockets
    /\ nEvents.send + nEvents.mark < MaxEvents
    /\ now <= nEvents.send
    /\ tasks' = tasks \cup {SendTask(1, nextId, senderId, receiverId, text, now),
                            SendTask(2, nextId + 1, senderId, receiverId, text, now)}
    /\ nextId' = nextId + 2
    /\ clock' = now
    /\ nEvents' = [nEvents EXCEPT !.send = @ + 1]
    /\ UNCHANGED <<owner, joined, inbox, store, marks, settled,
                   emails>>

\* RoomHandlerEmits to the room named receiverId, as the other handlers do
RoomHandlerEmitsToReceiver(m) == EmitToRoom(m.receiver, MessageEvent(m))

\* RoomHandlerEmits to the receiver's sockets in the room only
RoomHandlerEmitsToReceiverOnly(m) ==
    Deliver(InRoom(RoomId(m.sender, m.receiver)) \cap HandlesOf(m.receiver),
            MessageEvent(m))

\* RoomHandlerEmits that skips the emit while another send is in flight
RoomHandlerEmitsUnlessBusy(m) ==
    IF \E t \in tasks : t.h = 1 /\ t.msg.id # m.id
    THEN inbox
    ELSE EmitToRoom(RoomId(m.sender, m.receiver), MessageEvent(m))

\* RoomHandlerEmits with a subscription per joinRoom call: a socket in the
\* room is sent the event once for each of its joinRoom events
RoomHandlerEmitsPerJoin(m) ==
    [s \in DOMAIN inbox |->
        IF s \in InRoom(RoomId(m.sender, m.receiver))
        THEN inbox[s] \o [k \in 1..Cardinality(joinArgs[s]) |-> MessageEvent(m)]
        ELSE inbox[s]]

\* what the room handler does once save() resolved:
\* io.to(roomId).emit("receiveMessage", message)
RoomHandlerEmits(m) == EmitToRoom(RoomId(m.sender, m.receiver), MessageEvent(m))

\* RejectedSaveEmits with the emit ahead of the await
RejectedSaveEmitsAnyway(t) ==
    IF t.h = 1 THEN RoomHandlerEmits(t.msg) ELSE inbox

\* what the sockets are sent when save() rejected: the rejection leaves the
\* handler at the await, ahead of every emit
RejectedSaveEmits(t) == inbox

\* message.save() rejects: the document fails validation, or the database
\* refuses the insert.  Neither handler catches: the handler ends there.
SaveRejects(t) ==
    /\ t \in tasks
    /\ tasks' = tasks \ {t}
    /\ inbox' = RejectedSaveEmits(t)
    /\ settled' = settled \cup
          {Settle(t, IF Validates(t.msg) THEN "PersistenceError" ELSE "ValidationError")}
    /\ UNCHANGED <<owner, joined, store, nextId, marks, emails, clock, nEvents>>

\* the room handler's save() resolves and the handler runs to its end
SendMessageRoom(t) ==
    /\ t \in tasks
    /\ t.h = 1
    /\ Validates(t.msg)
    /\ store' = Append(store, t.msg)
    /\ inbox' = RoomHandlerEmits(t.msg)
    /\ tasks' = tasks \ {t}
    /\ settled' = settled \cup {Settle(t, "ok")}
    /\ UNCHANGED <<owner, joined, nextId, marks, emails, clock,
                   nEvents>>

\* the presence/email handler's save() resolves and the handler runs on:
\* onlineUsers[receiverId] throws when onlineUsers is not declared; with a
\* map, a receiver not in it is sent the email, one in it the event in the
\* room named receiverId
SendMessagePresence(t) ==
    /\ t \in tasks
    /\ t.h = 2
    /\ Validates(t.msg)
    /\ store' = Append(store, t.msg)
    /\ tasks' = tasks \ {t}
    /\ IF PresenceRead(t.msg.receiver) = "ReferenceError"
       THEN /\ settled' = settled \cup {Settle(t, "ReferenceError")}
            /\ UNCHANGED <<inbox, emails>>
       ELSE IF PresenceRead(t.msg.receiver) = "online"
       THEN /\ settled' = settled \cup {Settle(t, "ok")}
            /\ inbox' = EmitToRoom(t.msg.receiver, MessageEvent(t.msg))
            /\ UNCHANGED emails
       ELSE /\ \E o \in SendMailOutcomes :
                  settled' = settled \cup {Settle(t, o)}
            /\ emails' = SendEmailNotification(EmailOf(t.msg.receiver),
                                               t.msg.text, t.msg.id)
            /\ UNCHANGED inbox
    /\ UNCHANGED <<owner, joined, nextId, marks, clock, nEvents>>

----------------------------------------------------------------------------
(* markAsRead *)

\* a "markAsRead" event arrives: the handlers of both listeners run up to
\* their await Message.findByIdAndUpdate(messageId, { read: true })
MarkAsRead(s, messageId) ==
    /\ s \in sockets
    /\ nEvents.send + nEvents.mark < MaxEvents
    /\ marks' = marks \cup {[h |-> 1, n |-> nEvents.mark + 1, messageId |-> messageId],
                            [h |-> 2, n |-> nEvents.mark + 1, messageId |-> messageId]}
    /\ nEvents' = [nEvents EXCEPT !.mark = @ + 1]
    /\ UNCHANGED <<owner, joined, inbox, store, nextId, tasks,
                   settled, emails, clock>>

\* MarkUpdate that also stamps the document
MarkUpdateTouching(coll, messageId) ==
    FindByIdAndUpdate(coll, messageId, [read |-> TRUE, timestamp |-> clock + 1])

\* what the update leaves in the collection
MarkUpdate(coll, messageId) == FindByIdAndUpdate(coll, messageId, [read |-> TRUE])

\* who is sent "messageRead" once the update resolved: io.emit, whatever the
\* update found
MarkEmits(messageId) == EmitToAll(ReadEvent(messageId))

\* findByIdAndUpdate settles and the handler runs to its end: a messageId that
\* does not cast rejects (CastError) and the handler ends there
MarkAsReadResumes(t) ==
    /\ t \in marks
    /\ marks' = marks \ {t}
    /\ IF t.messageId = MalformedId
       THEN UNCHANGED <<store, inbox>>
       ELSE /\ store' = MarkUpdate(store, t.messageId)
            /\ inbox' = MarkEmits(t.messageId)
    /\ UNCHANGED <<owner, joined, nextId, tasks, settled, emails,
                   clock, nEvents>>

\* the message ids a client may send: the _id of a stored message (it learns
\* them from the events and from GET /api/chat/:userId), or one it made up
MessageIds == StoreIds \cup {UnknownId, MalformedId}

----------------------------------------------------------------------------
(* The chat server *)

resolveVars == <<ra, rb, rroom, history, rc, rd, rroom2, typed, joinArgs, stale>>

Next ==
    \/ \E s \in Sockets : \E u \in Connecting(s) :
          Connect(s, u) /\ UNCHANGED resolveVars
    \/ \E s \in sockets : Disconnect(s) /\ UNCHANGED resolveVars
    \/ \E s \in sockets, p \in PairArgs :
          JoinRoom(s, p[1], p[2]) /\ UNCHANGED resolveVars
    \/ \E s \in sockets, p \in PairArgs :
          Typing(s, p[1], p[2]) /\ UNCHANGED resolveVars
    \/ \E s \in sockets, p \in SendArgs, now \in {clock, clock + 1} :
          SendMessage(s, p[1], p[2], p[3], now) /\ UNCHANGED resolveVars
    \/ \E t \in tasks : SaveRejects(t) /\ UNCHANGED resolveVars
    \/ \E t \in tasks : SendMessageRoom(t) /\ UNCHANGED resolveVars
    \/ \E t \in tasks : SendMessagePresence(t) /\ UNCHANGED resolveVars
    \/ \E s \in sockets, id \in MessageIds :
          MarkAsRead(s, id) /\ UNCHANGED resolveVars
    \/ \E t \in marks : MarkAsReadResumes(t) /\ UNCHANGED resolveVars

Spec == Init /\ [][Next]_vars


----------------------------------------------------------------------------
(* What the properties below read off a state *)

\* the handler got past its await message.save()
Saved(r) == r.outcome \notin {"PersistenceError", "ValidationError"}

\* the room handler of a send ran to its emit
Broadcast(r) == r.h = 1 /\ r.outcome = "ok"

\* the conversation room of a send
RoomOf(r) == RoomId(r.msg.sender, r.msg.receiver)

\* the positions of the "receiveMessage" events for message id in an inbox
MessagesAt(box, id) ==
    {i \in DOMAIN box : box[i].ev = "receiveMessage" /\ box[i].message.id = id}

HasMessage(box, id) == MessagesAt(box, id) # {}

\* the ids of the messages an inbox has events for
MessageIdsIn(box) ==
    {box[i].message.id : i \in {j \in DOMAIN box : box[j].ev = "receiveMessage"}}

\* the positions of the "messageRead" events for message id in an inbox
ReadsAt(box, id) ==
    {i \in DOMAIN box : box[i].ev = "messageRead" /\ box[i].messageId = id}

\* the handlers that end in this step
Settling == settled' \ settled

\* the position of message id in the collection
StoredAt(id) == CHOOSE i \in DOMAIN store : store[i].id = id

----------------------------------------------------------------------------
(* C1: a "receiveMessage" event is only ever emitted for a message that is in
   the collection, and for a message whose save() rejected (validation or
   database) no socket is sent an event, no email goes out, and the
   collection does not hold it. *)
C1_NoFanOutWithoutPersistence ==
    /\ \A s \in Sockets : MessageIdsIn(inbox[s]) \subseteq StoreIds
    /\ \A r \in settled :
          ~Saved(r) =>
             /\ r.msg.id \notin StoreIds
             /\ \A s \in Sockets : ~HasMessage(inbox[s], r.msg.id)
             /\ \A i \in DOMAIN emails : emails[i].id # r.msg.id

\* the database refused the room handler's insert of a valid message while a
\* socket was in the conversation room
C1_Witness ==
    \E r \in settled :
       /\ r.h = 1
       /\ r.outcome = "PersistenceError"
       /\ InRoom(RoomOf(r)) # {}

----------------------------------------------------------------------------
(* C2, as amended: when a handler of a send ends while the receiver has a
   connected socket in the conversation room, each of the receiver's sockets
   that is in the room is sent exactly one "receiveMessage" event for the
   send (by the room handler, once its save resolved), no email goes out, and
   no other step sends a "receiveMessage" event. *)
C2_JoinedReceiverGetsOne ==
    [][/\ \A r \in Settling :
             LET there == HandlesOf(r.msg.receiver) \cap InRoom(RoomOf(r)) IN
             there # {} =>
                /\ emails' = emails
                /\ \A s \in there :
                      inbox'[s] = IF Broadcast(r)
                                  THEN Append(inbox[s], MessageEvent(r.msg))
                                  ELSE inbox[s]
       /\ Settling = {} =>
             \A s \in Sockets : MessageIdsIn(inbox'[s]) \subseteq MessageIdsIn(inbox[s])
      ]_vars

\* both handlers of a send have ended, a socket of the receiver in the room
\* holds the one event, and no email went out
C2_Witness ==
    \E r1, r2 \in settled :
       /\ Broadcast(r1)
       /\ r2.h = 2 /\ r2.send = r1.send
       /\ \E s \in HandlesOf(r1.msg.receiver) \cap InRoom(RoomOf(r1)) :
             Cardinality(MessagesAt(inbox[s], r1.msg.id)) = 1
       /\ emails = <<>>

(* C2 as claimed: when the room handler of a send emits while the receiver has
   a connected socket in the conversation room, every connected socket of the
   receiver is sent the event. *)
C2_EveryHandleOfReceiver ==
    [][\A r \in Settling :
          (Broadcast(r) /\ HandlesOf(r.msg.receiver) \cap InRoom(RoomOf(r)) # {}) =>
             \A s \in HandlesOf(r.msg.receiver) :
                inbox'[s] = Append(inbox[s], MessageEvent(r.msg))
      ]_vars

----------------------------------------------------------------------------
(* C3: when the presence/email handler of a persisted send ends while the
   receiver has no connected socket, it has called sendEmailNotification once,
   with the receiver's address and the text. *)
C3_OfflineReceiverNotified ==
    [][\A r \in Settling :
          (r.h = 2 /\ Saved(r) /\ HandlesOf(r.msg.receiver) = {}) =>
             emails' = Append(emails, [to |-> EmailOf(r.msg.receiver),
                                       text |-> r.msg.text, id |-> r.msg.id])
      ]_vars

----------------------------------------------------------------------------
(* C4: a sendMessage event adds one document to the collection: there are at
   most as many documents as sendMessage events. *)
C4_OneDocumentPerSend == Len(store) <= nEvents.send

----------------------------------------------------------------------------
(* C5: when the room handler of a send emits, every socket of the sender and
   of the receiver that is in the conversation room is sent the
   "receiveMessage" event, and the event carries the _id and the text of a
   document of the collection. *)
C5_RoomGetsStoredMessage ==
    [][\A r \in Settling :
          Broadcast(r) =>
             /\ \E i \in DOMAIN store' :
                   /\ store'[i].id = r.msg.id
                   /\ store'[i].text = r.msg.text
             /\ \A s \in InRoom(RoomOf(r)) \cap
                          (HandlesOf(r.msg.sender) \cup HandlesOf(r.msg.receiver)) :
                   /\ inbox'[s] # inbox[s]
                   /\ inbox'[s][Len(inbox'[s])] = MessageEvent(r.msg)
      ]_vars

\* a user with two devices in the room sent a message, and both devices and
\* the receiver's hold the event for it
C5_Witness ==
    \E r \in settled :
       /\ Broadcast(r)
       /\ Cardinality(HandlesOf(r.msg.sender)) = 2
       /\ HandlesOf(r.msg.receiver) # {}
       /\ \A s \in HandlesOf(r.msg.sender) \cup HandlesOf(r.msg.receiver) :
             HasMessage(inbox[s], r.msg.id)

----------------------------------------------------------------------------
(* The room id computation on its own: the identifiers are drawn at the
   start and the step computes the room id as joinRoom and sendMessage do *)

Alphabet == {"a", "b", "-"}

\* the strings over Alphabet of length n
RECURSIVE StringsOfLen(_)
StringsOfLen(n) ==
    IF n = 0 THEN {<<>>}
    ELSE {<<ch>> \o w : ch \in Alphabet, w \in StringsOfLen(n - 1)}

Strings == UNION {StringsOfLen(n) : n \in 0..MaxIdLen}

ResolveInit ==
    /\ ChatInit
    /\ ra \in Strings
    /\ rb \in Strings
    /\ rroom = Empty
    /\ history = NoHistory
    /\ AuxInit

Resolve ==
    /\ rroom = Empty
    /\ rroom' = RoomId(ra, rb)
    /\ UNCHANGED <<ra, rb, history>>
    /\ UNCHANGED chatVars
    /\ UNCHANGED auxVars

ResolveSpec == ResolveInit /\ [][Resolve]_vars

----------------------------------------------------------------------------
(* C6: the room id is the same whichever of the two identifiers comes first:
   once the room id of (ra, rb) is computed, it is the room id of (rb, ra). *)
C6_RoomIdSymmetric == rroom # Empty => rroom = RoomId(rb, ra)

\* the room id of two different identifiers given in descending order
C6_Witness == rroom # Empty /\ StrLess(rb, ra) /\ rroom = rb \o <<"-">> \o ra


----------------------------------------------------------------------------
(* C7: no socket is sent more than one "messageRead" event for the same
   stored message. *)
C7_OneReadEventPerMessage ==
    \A s \in Sockets : \A id \in StoreIds : Cardinality(ReadsAt(inbox[s], id)) <= 1

----------------------------------------------------------------------------
(* C8: no socket is sent a "messageRead" event for an id that no document
   has. *)
C8_UnknownIdNotBroadcast ==
    \A s \in Sockets : ReadsAt(inbox[s], UnknownId) = {}

----------------------------------------------------------------------------
(* C9: no step removes a document or changes the sender, receiver, text or
   timestamp of one, and no step takes a document's read flag from true to
   false. *)
C9_MessagesImmutable ==
    [][/\ Len(store') >= Len(store)
       /\ \A i \in DOMAIN store :
             /\ store'[i].id = store[i].id
             /\ store'[i].sender = store[i].sender
             /\ store'[i].receiver = store[i].receiver
             /\ store'[i].text = store[i].text
             /\ store'[i].timestamp = store[i].timestamp
             /\ ReadFlag(store[i]) => ReadFlag(store'[i])
      ]_vars

\* a markAsRead for a stored message has run to its emit
C9_Witness ==
    \E s \in Sockets : \E id \in StoreIds : ReadsAt(inbox[s], id) # {}

----------------------------------------------------------------------------
(* C10: two sends into the same conversation from different senders, in
   flight together.  When the room handler of one emits while the other's is
   pending or has emitted, the message is in the collection and every socket
   in the room is sent its event after the events it already holds; and once
   both have emitted, both messages are in the collection and a socket that
   holds the event of the one stored first holds the other's too. *)
C10_Rival(r, x) ==
    /\ x.h = 1
    /\ x.msg.id # r.msg.id
    /\ Validates(x.msg)
    /\ RoomOf(x) = RoomOf(r)
    /\ x.msg.sender # r.msg.sender

C10_ConcurrentSends ==
    /\ [](\A r1, r2 \in settled :
            (Broadcast(r1) /\ Broadcast(r2) /\ C10_Rival(r1, r2)) =>
               /\ {r1.msg.id, r2.msg.id} \subseteq StoreIds
               /\ \A s \in sockets :
                     (/\ StoredAt(r1.msg.id) < StoredAt(r2.msg.id)
                      /\ HasMessage(inbox[s], r1.msg.id))
                        => HasMessage(inbox[s], r2.msg.id))
    /\ [][\A r \in Settling :
            (/\ Broadcast(r)
             /\ \/ \E x \in tasks : C10_Rival(r, x)
                \/ \E x \in settled : Broadcast(x) /\ C10_Rival(r, x)) =>
               /\ r.msg.id \in StoreIds'
               /\ \A s \in InRoom(RoomOf(r)) :
                     inbox'[s] = Append(inbox[s], MessageEvent(r.msg))
         ]_vars

\* the second of two sends overtook the first at the database, both emitted,
\* and a socket holds both events
C10_Witness ==
    \E r1, r2 \in settled :
       /\ Broadcast(r1) /\ Broadcast(r2) /\ C10_Rival(r1, r2)
       /\ r1.send < r2.send
       /\ StoredAt(r2.msg.id) < StoredAt(r1.msg.id)
       /\ \E s \in sockets :
             HasMessage(inbox[s], r1.msg.id) /\ HasMessage(inbox[s], r2.msg.id)

----------------------------------------------------------------------------
(* C11: the sockets of a conversation room are sent the "receiveMessage"
   events of two sends into that room in the order the server received the
   sends: when the room handlers of both have emitted, a socket holds the
   event of the earlier send ahead of the event of the later one. *)
C11_PerRoomOrder ==
    \A r1, r2 \in settled :
       (/\ Broadcast(r1) /\ Broadcast(r2)
        /\ r1.send < r2.send
        /\ RoomOf(r1) = RoomOf(r2)) =>
          \A s \in sockets :
             \A i \in MessagesAt(inbox[s], r1.msg.id) :
                \A j \in MessagesAt(inbox[s], r2.msg.id) : i < j

----------------------------------------------------------------------------
(* C12: when the only connected socket of a user disconnects while the
   presence/email handler of a send to that user is waiting for its save, the
   presence lookup the handler makes once the disconnect is processed says
   the user is offline. *)
C12_OfflineAfterDisconnect ==
    [][\A s \in sockets :
          (/\ owner'[s] = NoUser
           /\ HandlesOf(owner[s]) = {s}
           /\ \E t \in tasks :
                 t.h = 2 /\ Validates(t.msg) /\ t.msg.receiver = owner[s]) =>
             PresenceRead(owner[s]) = "offline"
      ]_vars

----------------------------------------------------------------------------
(* C13: the presence/email handler of a send to a user with no connected
   socket, once its save resolved, runs to its end without an error leaving
   it, whatever the mail transport did, and the message is in the
   collection. *)
C13_OfflineSendCompletes ==
    [][\A r \in Settling :
          (r.h = 2 /\ Saved(r) /\ HandlesOf(r.msg.receiver) = {}) =>
             /\ r.outcome = "ok"
             /\ r.msg.id \in StoreIds'
      ]_vars

----------------------------------------------------------------------------
(* C14: a send with an empty sender, receiver or text is rejected by the
   validation save() runs ahead of the insert: the handler ends with the
   validation error, the step leaves the collection, every socket's events
   and the emails as they were, and the collection never holds such a
   message. *)
C14_Invalid(m) == m.sender = Empty \/ m.receiver = Empty \/ m.text = Empty

C14_InvalidSendRejected ==
    /\ [](\A i \in DOMAIN store : ~C14_Invalid(store[i]))
    /\ [][\A r \in Settling :
            C14_Invalid(r.msg) =>
               /\ r.outcome = "ValidationError"
               /\ store' = store
               /\ inbox' = inbox
               /\ emails' = emails
         ]_vars

\* a send with an empty text into a room with a socket in it, and a send with
\* an empty receiver, were rejected by both handlers
C14_Witness ==
    /\ \E r1, r2 \in settled :
          /\ r1.h = 1 /\ r2.h = 2 /\ r1.send = r2.send
          /\ r1.msg.text = Empty
          /\ r1.outcome = "ValidationError" /\ r2.outcome = "ValidationError"
          /\ InRoom(RoomOf(r1)) # {}
    /\ \E r \in settled : r.msg.receiver = Empty /\ r.outcome = "ValidationError"

----------------------------------------------------------------------------
(* C15: the presence lookup of the send path says a user is online exactly
   when the user has a connected socket. *)
C15_OnlineIffConnected ==
    \A u \in Users : (PresenceRead(u) = "online") <=> (HandlesOf(u) # {})

----------------------------------------------------------------------------
(* C16: the step that disconnects a socket takes it out of every room it had
   joined and out of the presence map: from then on the lookup answers for
   its user by the sockets the user has left. *)
C16_DisconnectUnregisters ==
    [][\A s \in sockets :
          owner'[s] = NoUser =>
             /\ joined'[s] = {}
             /\ PresenceRead(owner[s]) =
                   IF HandlesOf(owner[s]) \ {s} = {} THEN "offline" ELSE "online"
      ]_vars

----------------------------------------------------------------------------
(* C17: while the server holds a verified participant identifier for no
   socket, no chat event has had an effect: no socket is in a room, no
   handler is running, the collection is empty and no socket was sent an
   event. *)
C17_NoEventBeforeAuthentication ==
    (\A s \in Sockets : VerifiedId(s) = NoUser) =>
       /\ store = <<>>
       /\ tasks = {}
       /\ marks = {}
       /\ \A s \in Sockets : joined[s] = {} /\ inbox[s] = <<>>

----------------------------------------------------------------------------
(* The chat history on its own: the collection is drawn at the start, as a
   run of sends leaves it, and the steps answer GET /api/chat/:userId *)

\* Matches with the first clause of the $or only
MatchesOneWay(m, userId, param) == m.sender = userId /\ m.receiver = param

\* the filter { $or: [{ sender: req.userId, receiver: req.params.userId },
\*                    { sender: req.params.userId, receiver: req.userId }] }
Matches(m, userId, param) ==
    \/ m.sender = userId /\ m.receiver = param
    \/ m.sender = param /\ m.receiver = userId

\* Message.find(filter): the positions of the documents it selects
Find(coll, userId, param) ==
    {i \in DOMAIN coll : Matches(coll[i], userId, param)}

\* the orders a set of positions can be put in
RECURSIVE Perms(_)
Perms(S) ==
    IF S = {} THEN {<<>>}
    ELSE UNION {{<<x>> \o p : p \in Perms(S \ {x})} : x \in S}

\* .sort({ timestamp: 1 }): the selected documents by ascending timestamp.
\* The database promises no order among documents with the same timestamp, so
\* every ascending order is a result.
SortByTimestamp(coll, found) ==
    {[k \in DOMAIN p |-> coll[p[k]]] :
        p \in {o \in Perms(found) :
                 \A i, j \in DOMAIN o :
                    i < j => coll[o[i]].timestamp <= coll[o[j]].timestamp}}

\* GET /api/chat/:userId by the authenticated user userId, answered with
\* res.json({ success: true, messages })
GetChat(userId, param) ==
    /\ ~history[<<userId, param>>].asked
    /\ \E messages \in SortByTimestamp(store, Find(store, userId, param)) :
          history' = [history EXCEPT ![<<userId, param>>] =
                         [asked |-> TRUE, messages |-> messages]]
    /\ UNCHANGED chatVars
    /\ UNCHANGED <<ra, rb, rroom>>
    /\ UNCHANGED auxVars

\* the (sender, receiver) of the sends that filled the collection
Conversations == {<<a, b>>, <<b, a>>, <<a, c>>}

\* Date.now() at the send after the sends of h: time passes by at most one
\* unit between two sends
Nows(h) == IF h = <<>> THEN {0} ELSE {h[Len(h)].timestamp, h[Len(h)].timestamp + 1}

\* the documents n sends save, in the order of the sends: of each send, the
\* room handler's document (the database refused the other handler's insert)
RECURSIVE Histories(_)
Histories(n) ==
    IF n = 0 THEN {<<>>}
    ELSE UNION {{Append(h, NewMessage(2 * n - 1, p[1], p[2], hi, now)) :
                    p \in Conversations, now \in Nows(h)} :
                 h \in Histories(n - 1)}

\* the collections n sends leave: their documents in the order the saves
\* resolved in
Stores(n) ==
    UNION {{[k \in 1..n |-> h[p[k]]] : p \in Perms(1..n)} : h \in Histories(n)}

\* the handlers that ran for the documents of a collection
SettledFor(coll) ==
    UNION {{[h |-> 1, send |-> (coll[i].id + 1) \div 2, msg |-> coll[i],
             outcome |-> "ok"],
            [h |-> 2, send |-> (coll[i].id + 1) \div 2,
             msg |-> [coll[i] EXCEPT !.id = @ + 1],
             outcome |-> "PersistenceError"]} : i \in DOMAIN coll}

\* the time of the last send
LastNow(coll) ==
    IF coll = <<>> THEN 0
    ELSE CHOOSE x \in {coll[i].timestamp : i \in DOMAIN coll} :
            \A i \in DOMAIN coll : coll[i].timestamp <= x

HistoryInit ==
    /\ store \in UNION {Stores(n) : n \in 0..MaxStore}
    /\ owner = [s \in Sockets |-> NoUser]
    /\ joined = [s \in Sockets |-> {}]
    /\ inbox = [s \in Sockets |-> <<>>]
    /\ nextId = 2 * Len(store) + 1
    /\ tasks = {}
    /\ marks = {}
    /\ settled = SettledFor(store)
    /\ emails = <<>>
    /\ clock = LastNow(store)
    /\ nEvents = [send |-> Len(store), mark |-> 0]
    /\ ra = Empty
    /\ rb = Empty
    /\ rroom = Empty
    /\ history = NoHistory
    /\ AuxInit

HistoryNext == \E q \in Requests : GetChat(q[1], q[2])

HistorySpec == HistoryInit /\ [][HistoryNext]_vars

\* the message is of the conversation of the two users of request q
C18_Conversation(m, q) ==
    <<m.sender, m.receiver>> \in {<<q[1], q[2]>>, <<q[2], q[1]>>}

C18_Reverse(q) == <<q[2], q[1]>>

C18_Ids(messages) == {messages[i].id : i \in DOMAIN messages}

(* C18, as amended: the response to GET /api/chat/:userId holds each stored
   message of the conversation of the two users once, holds no other
   message, and is in non-decreasing timestamp order; the responses to the
   request and to the reverse request hold the same messages. *)
C18_ChatHistory ==
    \A q \in Requests :
       history[q].asked =>
          LET r == history[q].messages IN
          /\ \A i \in DOMAIN r : \E j \in DOMAIN store : store[j] = r[i]
          /\ C18_Ids(r) =
                {store[j].id : j \in {k \in DOMAIN store :
                                        C18_Conversation(store[k], q)}}
          /\ Len(r) = Cardinality(C18_Ids(r))
          /\ \A i, j \in DOMAIN r : i < j => r[i].timestamp <= r[j].timestamp
          /\ (C18_Reverse(q) \in Requests /\ history[C18_Reverse(q)].asked) =>
                C18_Ids(history[C18_Reverse(q)].messages) = C18_Ids(r)

\* a and b each asked for their conversation, which has messages of both
\* directions, while the collection holds a message of another conversation
\* and a later message saved ahead of an earlier one; the two responses are
\* in different orders
C18_Witness ==
    /\ history[<<a, b>>].asked
    /\ history[<<b, a>>].asked
    /\ history[<<a, b>>].messages # history[<<b, a>>].messages
    /\ \E i, j \in DOMAIN history[<<a, b>>].messages :
          /\ history[<<a, b>>].messages[i].sender = a
          /\ history[<<a, b>>].messages[j].sender = b
    /\ \E i \in DOMAIN store : ~C18_Conversation(store[i], <<a, b>>)
    /\ \E i, j \in DOMAIN store : i < j /\ store[i].timestamp > store[j].timestamp

(* C18 as claimed: the same, and the responses to the request and to the
   reverse request are the same sequence. *)
C18_SameSequenceBothWays ==
    /\ C18_ChatHistory
    /\ \A q \in Requests :
          (/\ history[q].asked
           /\ C18_Reverse(q) \in Requests
           /\ history[C18_Reverse(q)].asked) =>
             history[C18_Reverse(q)].messages = history[q].messages

----------------------------------------------------------------------------
(* C19: once the one markAsRead of a run, for a stored message, has run to
   its end, the document in the collection has read = true and a socket that
   was sent a "messageRead" event for the message was sent exactly one. *)
C19_ReadFlagStored ==
    \A id \in StoreIds :
       (/\ nEvents.mark = 1
        /\ marks = {}
        /\ \E s \in Sockets : ReadsAt(inbox[s], id) # {}) =>
          /\ ReadFlag(store[StoredAt(id)])
          /\ \A s \in Sockets :
                ReadsAt(inbox[s], id) # {} => Cardinality(ReadsAt(inbox[s], id)) = 1

----------------------------------------------------------------------------
(* C20: a socket that was sent a "messageRead" event for a stored message is
   in the conversation room of that message. *)
C20_ReadEventRoomScoped ==
    \A s \in sockets : \A id \in StoreIds :
       ReadsAt(inbox[s], id) # {} =>
          RoomId(store[StoredAt(id)].sender, store[StoredAt(id)].receiver)
             \in joined[s]

----------------------------------------------------------------------------
(* C22: when the presence/email handler of a stored send ends while the
   receiver has a connected socket but none in the conversation room, it has
   called sendEmailNotification for the message. *)
C22_UnsubscribedReceiverNotified ==
    [][\A r \in Settling :
          (/\ r.h = 2
           /\ Saved(r)
           /\ HandlesOf(r.msg.receiver) # {}
           /\ HandlesOf(r.msg.receiver) \cap InRoom(RoomOf(r)) = {}) =>
             \E i \in DOMAIN emails' : emails'[i].id = r.msg.id
      ]_vars

----------------------------------------------------------------------------
(* C23: the step that disconnects a socket leaves every other socket as it
   was, and the presence lookup then says its user is online while the user
   has another connected socket and offline when that was the last one. *)
C23_UnregisterExactlyOne ==
    [][\A s \in sockets :
          owner'[s] = NoUser =>
             /\ \A x \in Sockets \ {s} :
                   owner'[x] = owner[x] /\ joined'[x] = joined[x]
             /\ HandlesOf(owner[s]) \ {s} # {} => PresenceRead(owner[s]) = "online"
             /\ HandlesOf(owner[s]) \ {s} = {} => PresenceRead(owner[s]) = "offline"
      ]_vars

----------------------------------------------------------------------------
(* C24: a connected socket that has joined no room since it connected has
   been sent no event of a conversation: no "receiveMessage", no
   "showTyping", and no "messageRead" for a stored message. *)
C24_NoEventsBeforeJoin ==
    \A s \in sockets :
       joined[s] = {} =>
          \A i \in DOMAIN inbox[s] :
             /\ inbox[s][i].ev # "receiveMessage"
             /\ inbox[s][i].ev # "showTyping"
             /\ inbox[s][i].ev = "messageRead" => inbox[s][i].messageId \notin StoreIds

----------------------------------------------------------------------------
(* C26: when a sendMessage handler ends because its save was rejected
   (validation or database), the step sends an event to a connected socket:
   the report to the connection that issued the send. *)
C26_FailureReportedToSender ==
    [][\A r \in Settling :
          (~Saved(r) /\ sockets # {}) =>
             \E s \in sockets : inbox'[s] # inbox[s]
      ]_vars

----------------------------------------------------------------------------
(* C28: a socket that was sent the "receiveMessage" event of a message is a
   socket of the sender or of the receiver of the message. *)
C28_RoomConfidential ==
    \A s \in sockets :
       \A i \in DOMAIN inbox[s] :
          inbox[s][i].ev = "receiveMessage" =>
             owner[s] \in {inbox[s][i].message.sender, inbox[s][i].message.receiver}

----------------------------------------------------------------------------
(* C29: when a sendMessage handler ends with its message saved, a connected
   socket of the receiver holds the "receiveMessage" event of the message or
   sendEmailNotification was called for it. *)
C29_DeliveredOrNotified ==
    [][\A r \in Settling :
          Saved(r) =>
             \/ \E s \in HandlesOf(r.msg.receiver) : HasMessage(inbox'[s], r.msg.id)
             \/ \E i \in DOMAIN emails' : emails'[i].id = r.msg.id
      ]_vars

----------------------------------------------------------------------------
(* The room ids of two pairs of identifiers: the four identifiers are drawn
   at the start, any strings, as joinRoom takes whatever the client sends,
   and the step computes both room ids *)

PairAlphabet == {"a", "-"}

\* the strings over PairAlphabet of length n
RECURSIVE PairStringsOfLen(_)
PairStringsOfLen(n) ==
    IF n = 0 THEN {<<>>}
    ELSE {<<ch>> \o w : ch \in PairAlphabet, w \in PairStringsOfLen(n - 1)}

PairStrings == UNION {PairStringsOfLen(n) : n \in 0..MaxPairLen}

PairInit ==
    /\ ChatInit
    /\ ra \in PairStrings
    /\ rb \in PairStrings
    /\ rc \in PairStrings
    /\ rd \in PairStrings
    /\ rroom = Empty
    /\ rroom2 = Empty
    /\ history = NoHistory
    /\ typed = <<>>
    /\ joinArgs = [s \in Sockets |-> {}]
    /\ stale = {}

PairResolve ==
    /\ rroom = Empty
    /\ rroom' = RoomId(ra, rb)
    /\ rroom2' = RoomId(rc, rd)
    /\ UNCHANGED <<ra, rb, rc, rd, history, typed, joinArgs, stale>>
    /\ UNCHANGED chatVars

PairSpec == PairInit /\ [][PairResolve]_vars

\* the identifier has no "-" in it, as the hexadecimal string of an ObjectId
C27_DashFree(x) == \A i \in DOMAIN x : x[i] # "-"

(* C27, as amended: for identifiers without a "-", two pairs have the same
   room id only if they are the same pair, in either order. *)
C27_DistinctRooms ==
    (/\ rroom # Empty
     /\ C27_DashFree(ra) /\ C27_DashFree(rb) /\ C27_DashFree(rc) /\ C27_DashFree(rd)
     /\ rroom = rroom2) =>
       {ra, rb} = {rc, rd}

\* two different pairs of dash-free identifiers with one identifier in
\* common, and their different room ids
C27_Witness ==
    /\ rroom # Empty
    /\ C27_DashFree(ra) /\ C27_DashFree(rb) /\ C27_DashFree(rc) /\ C27_DashFree(rd)
    /\ ra # rb /\ rc # rd
    /\ ra \in {rc, rd}
    /\ {ra, rb} # {rc, rd}
    /\ rroom # rroom2

(* C27 as claimed: for all identifiers joinRoom accepts, two pairs have the
   same room id only if they are the same pair. *)
C27_DistinctRoomsAnyStrings ==
    (rroom # Empty /\ rroom = rroom2) => {ra, rb} = {rc, rd}

----------------------------------------------------------------------------
(* The typing indicator on its own: connections, joinRoom and "typing"
   events, with the "typing" events recorded as the server handles them *)

\* socket.on("typing"), and the event noted
TypingNoted(s, senderId, receiverId) ==
    /\ Len(typed) < MaxTyping
    /\ Typing(s, senderId, receiverId)
    /\ typed' = Append(typed, <<senderId, receiverId>>)
    /\ UNCHANGED <<ra, rb, rroom, history, rc, rd, rroom2, joinArgs, stale>>

TypingNext ==
    \/ \E s \in Sockets : \E u \in Connecting(s) :
          Connect(s, u) /\ UNCHANGED resolveVars
    \/ \E s \in sockets : Disconnect(s) /\ UNCHANGED resolveVars
    \/ \E s \in sockets, p \in PairArgs :
          JoinRoom(s, p[1], p[2]) /\ UNCHANGED resolveVars
    \/ \E s \in sockets, p \in PairArgs : TypingNoted(s, p[1], p[2])

TypingSpec == Init /\ [][TypingNext]_vars

(* C21: the step that handles a "typing" event of a sender to a receiver
   sends the "showTyping" event to every connected socket in the
   conversation room of the two, and to no other socket. *)
C21_TypingToConversationRoom ==
    [][typed' # typed =>
          LET e == typed'[Len(typed')] IN
          \A s \in sockets :
             IF s \in InRoom(RoomId(e[1], e[2]))
             THEN /\ inbox'[s] # inbox[s]
                  /\ inbox'[s][Len(inbox'[s])] = TypingEvent(e[1])
             ELSE inbox'[s] = inbox[s]
      ]_vars

----------------------------------------------------------------------------
(* joinRoom on its own: connections, joinRoom and sendMessage, with every
   joinRoom event of a socket recorded: its payload and how many events the
   socket had been sent by then *)

\* socket.on("joinRoom"), and the event noted
JoinRoomNoted(s, senderId, receiverId) ==
    /\ JoinRoom(s, senderId, receiverId)
    /\ joinArgs' = [joinArgs EXCEPT ![s] =
                       @ \cup {<<senderId, receiverId, Len(inbox[s])>>}]
    /\ UNCHANGED <<ra, rb, rroom, history, rc, rd, rroom2, typed, stale>>

\* the socket closes, and nothing is kept of what it did
DisconnectNoted(s) ==
    /\ Disconnect(s)
    /\ joinArgs' = [joinArgs EXCEPT ![s] = {}]
    /\ UNCHANGED <<ra, rb, rroom, history, rc, rd, rroom2, typed, stale>>

\* the devices and the payloads of a run of JoinSpec: a's and b's device, and
\* sends of a to b
JoinSockets == {1, 2}
JoinSendArgs == {<<a, b, hi>>}

JoinNext ==
    \/ \E s \in JoinSockets : \E u \in Connecting(s) :
          Connect(s, u) /\ UNCHANGED resolveVars
    \/ \E s \in sockets : DisconnectNoted(s)
    \/ \E s \in sockets, p \in PairArgs : JoinRoomNoted(s, p[1], p[2])
    \/ \E s \in sockets, p \in JoinSendArgs :
          SendMessage(s, p[1], p[2], p[3], clock) /\ UNCHANGED resolveVars
    \/ \E t \in tasks : SaveRejects(t) /\ UNCHANGED resolveVars
    \/ \E t \in tasks : SendMessageRoom(t) /\ UNCHANGED resolveVars
    \/ \E t \in tasks : SendMessagePresence(t) /\ UNCHANGED resolveVars

JoinSpec == Init /\ [][JoinNext]_vars

(* C30: a socket that sent joinRoom for a pair of users more than once, in
   either order of the two, is in one room for them and no more; when the
   room handler of a send emits, each socket in the room is sent the event
   once, however often it joined; and no socket ever holds the event of a
   message twice. *)
C30_JoinIdempotent ==
    /\ [](\A s \in sockets :
            /\ joined[s] = {RoomId(j[1], j[2]) : j \in joinArgs[s]}
            /\ \A j1, j2 \in joinArgs[s] :
                  {j1[1], j1[2]} = {j2[1], j2[2]} =>
                     RoomId(j1[1], j1[2]) = RoomId(j2[1], j2[2])
            /\ \A id \in StoreIds : Cardinality(MessagesAt(inbox[s], id)) <= 1)
    /\ [][\A r \in Settling :
            Broadcast(r) =>
               \A s \in InRoom(RoomOf(r)) :
                  inbox'[s] = Append(inbox[s], MessageEvent(r.msg))
         ]_vars

\* a socket that joined the room of a and b twice, once in each order of the
\* two, before it was sent anything, holds the event of a message of theirs
\* once
C30_Witness ==
    \E s \in sockets :
       /\ {<<a, b, 0>>, <<b, a, 0>>} \subseteq joinArgs[s]
       /\ Cardinality(joined[s]) = 1
       /\ \E r \in settled :
             /\ Broadcast(r)
             /\ Cardinality(MessagesAt(inbox[s], r.msg.id)) = 1

----------------------------------------------------------------------------
(* Broken connections: a socket whose transport broke stays in its rooms
   until the server closes it; what io.to(room).emit writes to it in between
   is lost.  A broken socket is recorded with the number of events it had
   been sent when it broke. *)

\* the records of a socket in stale
StaleOf(s) == {x \in stale : x[1] = s}

\* the connected sockets with a broken transport
StaleSockets == {s \in sockets : StaleOf(s) # {}}

\* the broken sockets that an emit has written to since they broke
FailedSockets == {s \in sockets : \E x \in StaleOf(s) : Len(inbox[s]) > x[2]}

\* the transport of a socket breaks; the server has not noticed yet
TransportBreaks(s) ==
    /\ s \in sockets
    /\ StaleOf(s) = {}
    /\ stale' = stale \cup {<<s, Len(inbox[s])>>}
    /\ UNCHANGED chatVars
    /\ UNCHANGED <<ra, rb, rroom, history, rc, rd, rroom2, typed, joinArgs>>

\* the socket closes, by its client or by the server on a broken transport:
\* socket.io takes it out of its rooms and the "disconnect" handlers run
Closes(s) ==
    /\ Disconnect(s)
    /\ stale' = stale \ StaleOf(s)
    /\ UNCHANGED <<ra, rb, rroom, history, rc, rd, rroom2, typed, joinArgs>>

StaleNext ==
    \/ \E s \in JoinSockets : \E u \in Connecting(s) :
          Connect(s, u) /\ UNCHANGED resolveVars
    \/ \E s \in sockets : TransportBreaks(s)
    \/ \E s \in sockets : Closes(s)
    \/ \E s \in sockets \ StaleSockets, p \in PairArgs :
          JoinRoom(s, p[1], p[2]) /\ UNCHANGED resolveVars
    \/ \E s \in sockets \ StaleSockets, p \in JoinSendArgs :
          SendMessage(s, p[1], p[2], p[3], clock) /\ UNCHANGED resolveVars
    \/ \E t \in tasks : SaveRejects(t) /\ UNCHANGED resolveVars
    \/ \E t \in tasks : SendMessageRoom(t) /\ UNCHANGED resolveVars
    \/ \E t \in tasks : SendMessagePresence(t) /\ UNCHANGED resolveVars

StaleSpec == Init /\ [][StaleNext]_vars

(* C25: when the room handler of a stored send ends while a socket in the
   room has a broken transport, the handler ends without an error and every
   other socket in the room is sent the event; and the step that closes a
   socket an emit failed to reach takes it out of its rooms and out of the
   presence map, whose lookup then answers for its user by the sockets the
   user has left. *)
C25_BestEffortBroadcast ==
    [][/\ \A r \in Settling :
             (r.h = 1 /\ Saved(r) /\ InRoom(RoomOf(r)) \cap StaleSockets # {}) =>
                /\ r.outcome = "ok"
                /\ \A s \in InRoom(RoomOf(r)) \ StaleSockets :
                      inbox'[s] = Append(inbox[s], MessageEvent(r.msg))
       /\ \A s \in FailedSockets :
             owner'[s] = NoUser =>
                /\ joined'[s] = {}
                /\ PresenceRead(owner[s]) =
                      IF HandlesOf(owner[s]) \ {s} = {} THEN "offline" ELSE "online"
      ]_vars

====
